---------------------------- MODULE Spec2Model ----------------------------
(***************************************************************************)
(* Model of convert_config.py: the conversion of a Pi-hole teleporter      *)
(* archive into a report of reachable blocklists and of custom filtering   *)
(* rules.                                                                  *)
(*                                                                         *)
(* Text is modelled character by character: a Python str is a sequence of  *)
(* one-character strings.  A JSON value is a record [kind, str, num]; a    *)
(* JSON object is a function from the keys it holds to JSON values.        *)
(***************************************************************************)
EXTENDS Integers, Sequences, FiniteSets

VARIABLES
    \* ---- one run of the program (main) ----
    pc,                      \* the statement of main the run is at
    argv_len,                \* len(sys.argv)
    archive,                 \* what is at archive_path: "valid" or "invalid"
    encoding,                \* the encoding of standard output
    temp_dir,                \* the temporary directory: "none", "exists", "removed"
    adlist_json,             \* the array json.load returned for adlist.json
    adlist,                  \* the local variable adlist of main
    filter_in,               \* the argument of filter_working_adlist
    filter_i,                \* entries of filter_in already tested
    filter_out,              \* entries the comprehension has kept so far
    probes,                  \* the HEAD requests issued, with their outcomes
    whitelist_exact,
    blacklist_exact,
    whitelist_regex,
    blacklist_regex,
    custom_filtering_rules,
    print_i,                 \* entries of adlist already printed
    stdout,                  \* what each successful print call wrote
    events,                  \* the calls of main in the order they completed
    error,                   \* the exception propagating, "" when none
    exit_code,               \* the process's exit status, -1 while running
    \* ---- one call of a list reader on its own ----
    rd_name,                 \* the reader called
    rd_file,                 \* the file at the path the reader opens
    rd_result,               \* what the call returned or raised
    \* ---- one call of build_custom_filtering_rules on its own ----
    b_args,                  \* the four argument lists
    b_result                 \* the string returned

run_vars ==
  <<pc, argv_len, archive, encoding, temp_dir, adlist_json, adlist, filter_in,
    filter_i, filter_out, probes, whitelist_exact, blacklist_exact, whitelist_regex,
    blacklist_regex, custom_filtering_rules, print_i, stdout, events, error,
    exit_code>>

reader_vars == <<rd_name, rd_file, rd_result>>

builder_vars == <<b_args, b_result>>

vars == <<run_vars, reader_vars, builder_vars>>

---------------------------------------------------------------------------
(* Bounds of the model *)

\* longest JSON array given to a list reader called on its own
MaxRecords == 2

\* longest adlist.json array in a run of main
MaxAdlist == 2

\* entries over the four arguments of build_custom_filtering_rules
MaxEntries == 3

---------------------------------------------------------------------------
(* JSON values as json.load returns them *)

JStr(s) == [kind |-> "str", str |-> s, num |-> 0]

JNum(n) == [kind |-> "num", str |-> <<>>, num |-> n]

\* bool is a subclass of int in Python: True is 1 and False is 0
JBool(b) == [kind |-> "bool", str |-> <<>>, num |-> IF b THEN 1 ELSE 0]

JNull == [kind |-> "null", str |-> <<>>, num |-> 0]

\* bool(v): the truth value Python gives a JSON value in an if clause
PyTruthy(v) ==
  CASE v.kind = "null" -> FALSE
    [] v.kind = "str"  -> v.str # <<>>
    [] OTHER           -> v.num # 0

\* v == 1 in Python: numbers compare by value (True == 1), a str never equals 1
PyEqualsOne(v) == v.kind \in {"num", "bool"} /\ v.num = 1

NoneText == <<"N", "o", "n", "e">>

TrueText == <<"T", "r", "u", "e">>

FalseText == <<"F", "a", "l", "s", "e">>

Digit(d) ==
  CASE d = 0 -> "0" [] d = 1 -> "1" [] d = 2 -> "2" [] d = 3 -> "3"
    [] d = 4 -> "4" [] d = 5 -> "5" [] d = 6 -> "6" [] d = 7 -> "7"
    [] d = 8 -> "8" [] OTHER -> "9"

RECURSIVE Decimal(_)
Decimal(n) ==
  IF n < 0 THEN <<"-">> \o Decimal(0 - n)
  ELSE IF n < 10 THEN <<Digit(n)>>
  ELSE Decimal(n \div 10) \o <<Digit(n % 10)>>

\* format(v, ""): what an f-string replacement field {v} produces
PyFormat(v) ==
  CASE v.kind = "str"  -> v.str
    [] v.kind = "null" -> NoneText
    [] v.kind = "bool" -> IF v.num = 1 THEN TrueText ELSE FalseText
    [] OTHER           -> Decimal(v.num)

\* s.replace("\\/", "/"): every backslash-slash pair, left to right
RECURSIVE PyReplace(_)
PyReplace(s) ==
  IF Len(s) = 0 THEN <<>>
  ELSE IF Len(s) >= 2 /\ s[1] = "\\" /\ s[2] = "/"
       THEN <<"/">> \o PyReplace(SubSeq(s, 3, Len(s)))
       ELSE <<s[1]>> \o PyReplace(Tail(s))

---------------------------------------------------------------------------
(* Results of calls that may raise *)

Return(v) == [error |-> "", value |-> v]

Raise(e) == [error |-> e, value |-> <<>>]

---------------------------------------------------------------------------
(* Files of the extracted directory *)

\* what open() and json.load find at a path
AbsentFile == [state |-> "absent", records |-> <<>>]

GarbageFile == [state |-> "garbage", records |-> <<>>]

JsonFile(records) == [state |-> "json", records |-> records]

\* with open(path) as f: json.load(f)
json_load(file) ==
  CASE file.state = "absent"  -> Raise("FileNotFoundError")
    [] file.state = "garbage" -> Raise("JSONDecodeError")
    [] OTHER                  -> Return(file.records)

---------------------------------------------------------------------------
(* The list readers *)

\* the comprehension of read_adlist without its if clause
RECURSIVE adlist_comprehension_unfiltered(_, _, _)
adlist_comprehension_unfiltered(records, i, acc) ==
  IF i > Len(records) THEN Return(acc)
  ELSE LET e == records[i] IN
       IF "address" \notin DOMAIN e THEN Raise("KeyError")
       ELSE IF "comment" \notin DOMAIN e THEN Raise("KeyError")
       ELSE adlist_comprehension_unfiltered(records, i + 1,
              Append(acc, [address |-> e["address"], comment |-> e["comment"]]))

\* [{"address": e["address"], "comment": e["comment"]} for e in adlist
\*  if e["enabled"]], from entry i on; a subscript of a missing key raises
RECURSIVE adlist_comprehension(_, _, _)
adlist_comprehension(records, i, acc) ==
  IF i > Len(records) THEN Return(acc)
  ELSE LET e == records[i] IN
       IF "enabled" \notin DOMAIN e THEN Raise("KeyError")
       ELSE IF ~PyTruthy(e["enabled"])
            THEN adlist_comprehension(records, i + 1, acc)
       ELSE IF "address" \notin DOMAIN e THEN Raise("KeyError")
       ELSE IF "comment" \notin DOMAIN e THEN Raise("KeyError")
       ELSE adlist_comprehension(records, i + 1,
              Append(acc, [address |-> e["address"], comment |-> e["comment"]]))

\* the comprehension of a domain-list reader with if e["enabled"] in place of
\* if e["enabled"] == 1
RECURSIVE domain_comprehension_truthy(_, _, _)
domain_comprehension_truthy(records, i, acc) ==
  IF i > Len(records) THEN Return(acc)
  ELSE LET e == records[i] IN
       IF "enabled" \notin DOMAIN e THEN Raise("KeyError")
       ELSE IF ~PyTruthy(e["enabled"])
            THEN domain_comprehension_truthy(records, i + 1, acc)
       ELSE IF "domain" \notin DOMAIN e THEN Raise("KeyError")
       ELSE IF "comment" \notin DOMAIN e THEN Raise("KeyError")
       ELSE domain_comprehension_truthy(records, i + 1,
              Append(acc, [domain |-> e["domain"], comment |-> e["comment"]]))

\* the comprehension of a domain-list reader reading the three keys of every
\* record before it filters
RECURSIVE domain_comprehension_eager(_, _, _)
domain_comprehension_eager(records, i, acc) ==
  IF i > Len(records) THEN Return(acc)
  ELSE LET e == records[i] IN
       IF {"enabled", "domain", "comment"} \subseteq DOMAIN e
       THEN domain_comprehension_eager(records, i + 1,
              IF PyEqualsOne(e["enabled"])
              THEN Append(acc, [domain |-> e["domain"],
                                comment |-> e["comment"]])
              ELSE acc)
       ELSE Raise("KeyError")

\* [{"domain": e["domain"], "comment": e["comment"]} for e in records
\*  if e["enabled"] == 1], from entry i on
RECURSIVE domain_comprehension(_, _, _)
domain_comprehension(records, i, acc) ==
  IF i > Len(records) THEN Return(acc)
  ELSE LET e == records[i] IN
       IF "enabled" \notin DOMAIN e THEN Raise("KeyError")
       ELSE IF ~PyEqualsOne(e["enabled"])
            THEN domain_comprehension(records, i + 1, acc)
       ELSE IF "domain" \notin DOMAIN e THEN Raise("KeyError")
       ELSE IF "comment" \notin DOMAIN e THEN Raise("KeyError")
       ELSE domain_comprehension(records, i + 1,
              Append(acc, [domain |-> e["domain"], comment |-> e["comment"]]))

\* the parameter is the file at os.path.join(temp_dir, "adlist.json")
read_adlist(file) ==
  LET loaded == json_load(file) IN
  IF loaded.error # "" THEN loaded
  ELSE adlist_comprehension(loaded.value, 1, <<>>)

\* the parameter is the file at os.path.join(temp_dir, "whitelist.exact.json")
read_whitelist_exact(file) ==
  LET loaded == json_load(file) IN
  IF loaded.error # "" THEN loaded
  ELSE domain_comprehension(loaded.value, 1, <<>>)

\* the parameter is the file at os.path.join(temp_dir, "blacklist.exact.json")
read_blacklist_exact(file) ==
  LET loaded == json_load(file) IN
  IF loaded.error # "" THEN loaded
  ELSE domain_comprehension(loaded.value, 1, <<>>)

\* the parameter is the file at os.path.join(temp_dir, "whitelist.regex.json")
read_whitelist_regex(file) ==
  LET loaded == json_load(file) IN
  IF loaded.error # "" THEN loaded
  ELSE domain_comprehension(loaded.value, 1, <<>>)

\* the parameter is the file at os.path.join(temp_dir, "blacklist.regex.json")
read_blacklist_regex(file) ==
  LET loaded == json_load(file) IN
  IF loaded.error # "" THEN loaded
  ELSE domain_comprehension(loaded.value, 1, <<>>)

---------------------------------------------------------------------------
(* The liveness filter *)

\* what requests.head did: it raised a RequestException or returned a response
RequestException == [raised |-> TRUE, status_code |-> 0]

Response(status) == [raised |-> FALSE, status_code |-> status]

\* test_url without its try/except: a RequestException goes on to the caller
test_url_propagating(url, response) ==
  IF url.kind # "str" THEN Raise("AttributeError")
  ELSE IF response.raised THEN Raise("RequestException")
  ELSE Return(response.status_code = 200)

\* url is the JSON value of an address; None, a number or a bool has no
\* replace method.  response is what requests.head(new_url) did.
test_url(url, response) ==
  IF url.kind # "str" THEN Raise("AttributeError")
  ELSE IF response.raised THEN Return(FALSE)
  ELSE Return(response.status_code = 200)

---------------------------------------------------------------------------
(* The rule builder *)

WhitelistHeader ==
  <<"!", " ", "W", "h", "i", "t", "e", "l", "i", "s", "t", "\n">>

BlacklistHeader ==
  <<"!", " ", "B", "l", "a", "c", "k", "l", "i", "s", "t", "\n">>

\* f"# {entry['comment']}\n<prefix>{entry['domain']}<suffix>\n"
rule_text(entry, prefix, suffix) ==
  <<"#", " ">> \o PyFormat(entry.comment) \o <<"\n">>
    \o prefix \o PyFormat(entry.domain) \o suffix \o <<"\n">>

\* for entry in entries: textblock += f"...", from entry i on
RECURSIVE for_entries(_, _, _, _, _)
for_entries(textblock, entries, i, prefix, suffix) ==
  IF i > Len(entries) THEN textblock
  ELSE for_entries(textblock \o rule_text(entries[i], prefix, suffix),
                   entries, i + 1, prefix, suffix)

\* the builder with the two loops of each section exchanged
build_regex_before_exact(w_exact, b_exact, w_regex, b_regex) ==
  LET t0 == <<>>
      t1 == t0 \o WhitelistHeader
      t2 == for_entries(t1, w_regex, 1, <<"@", "@", "/">>, <<"/">>)
      t3 == for_entries(t2, w_exact, 1, <<"@", "@", "|">>, <<"^">>)
      t4 == t3 \o <<"\n", "\n">>
      t5 == t4 \o BlacklistHeader
      t6 == for_entries(t5, b_regex, 1, <<"/">>, <<"/">>)
      t7 == for_entries(t6, b_exact, 1, <<"|">>, <<"^">>)
  IN t7

\* the parameters are whitelist_exact, blacklist_exact, whitelist_regex and
\* blacklist_regex, in the order of the signature
build_custom_filtering_rules(w_exact, b_exact, w_regex, b_regex) ==
  LET t0 == <<>>
      t1 == t0 \o WhitelistHeader
      t2 == for_entries(t1, w_exact, 1, <<"@", "@", "|">>, <<"^">>)
      t3 == for_entries(t2, w_regex, 1, <<"@", "@", "/">>, <<"/">>)
      t4 == t3 \o <<"\n", "\n">>
      t5 == t4 \o BlacklistHeader
      t6 == for_entries(t5, b_exact, 1, <<"|">>, <<"^">>)
      t7 == for_entries(t6, b_regex, 1, <<"/">>, <<"/">>)
  IN t7

---------------------------------------------------------------------------
(* Standard output *)

UsageMessage ==
  <<"U", "s", "a", "g", "e", ":", " ", "p", "y", "t", "h", "o", "n", "3",
    " ", "c", "o", "n", "v", "e", "r", "t", "_", "c", "o", "n", "f", "i",
    "g", ".", "p", "y", " ", "<", "t", "e", "l", "e", "p", "o", "r", "t",
    "e", "r", " ", "a", "r", "c", "h", "i", "v", "e", " ", "p", "a", "t",
    "h", ">">>

BlocklistHeader ==
  <<"A", "d", "d", " ", "e", "a", "c", "h", " ", "o", "f", " ", "t", "h",
    "e", " ", "f", "o", "l", "l", "o", "w", "i", "n", "g", " ", "b", "l",
    "o", "c", "k", "l", "i", "s", "t", " ", "t", "o", " ", "t", "h", "e",
    " ", "D", "N", "S", " ", "b", "l", "o", "c", "k", "l", "i", "s", "t",
    "s", " ", "p", "a", "g", "e", ":", "\n", "\n">>

RulesHeader ==
  <<"C", "o", "p", "y", " ", "p", "a", "s", "t", " ", "t", "h", "i", "s",
    " ", "i", "n", " ", "t", "h", "e", " ", "C", "u", "s", "t", "o", "m",
    " ", "f", "i", "l", "t", "e", "r", "i", "n", "g", " ", "r", "u", "l",
    "e", "s", " ", "f", "i", "e", "l", "d", ":", "\n", "\n">>

NamePrefix == <<"N", "a", "m", "e", ":", " ">>

UrlPrefix == <<"U", "R", "L", ":", " ">>

\* a character outside ASCII, named by its code point (e with acute accent)
EAcute == "U+00E9"

\* whether text.encode(encoding) succeeds: ASCII cannot encode EAcute
Encodable(text, enc) ==
  enc = "utf-8" \/ \A k \in 1..Len(text) : text[k] # EAcute

\* print(t) for each t of texts, from text i on, out being what was written
\* before: a print writes its text and a line break, or raises and writes
\* nothing; the first print that raises ends the sequence of calls
RECURSIVE print_calls(_, _, _, _)
print_calls(out, texts, i, enc) ==
  IF i > Len(texts) THEN [error |-> "", value |-> out]
  ELSE IF ~Encodable(texts[i], enc)
       THEN [error |-> "UnicodeEncodeError", value |-> out]
       ELSE print_calls(Append(out, texts[i] \o <<"\n">>), texts, i + 1, enc)

\* the three print calls of the loop body of main for one adlist entry
entry_texts(addlist_entry) ==
  << NamePrefix \o PyFormat(addlist_entry.comment),
     UrlPrefix \o PyReplace(addlist_entry.address.str),
     <<"\n", "\n">> >>

---------------------------------------------------------------------------
(* Inputs of a run of main *)

\* a JSON object with the keys whose value is given; Missing drops the key
Missing == [kind |-> "missing", str |-> <<>>, num |-> 0]

Object(key, v, comment, enabled) ==
  LET full == [k \in {key, "comment", "enabled"} |->
                 IF k = key THEN v ELSE IF k = "comment" THEN comment
                 ELSE enabled]
  IN [k \in {x \in DOMAIN full : full[x] # Missing} |-> full[k]]

\* all sequences over S of length at most n
SeqsUpTo(S, n) == UNION {[1..k -> S] : k \in 0..n}

EscapedUrl == JStr(<<"h", ":", "\\", "/", "\\", "/", "a">>)

PlainUrl == JStr(<<"h", ":", "/", "/", "b">>)

RunAdlistRecords ==
  { Object("address", EscapedUrl, JStr(<<"x">>), JBool(TRUE)),
    Object("address", PlainUrl, JStr(<<EAcute>>), JBool(TRUE)),
    Object("address", PlainUrl, JStr(<<"y">>), JBool(FALSE)),
    Object("address", JNull, JStr(<<"x">>), JBool(TRUE)),
    Object("address", Missing, JStr(<<"x">>), JBool(FALSE)),
    Object("address", EscapedUrl, JStr(<<"x">>), Missing) }

RunAdlistFiles ==
  {AbsentFile, GarbageFile}
    \cup {JsonFile(r) : r \in SeqsUpTo(RunAdlistRecords, MaxAdlist)}

RunDomainFiles ==
  { AbsentFile,
    JsonFile(<< Object("domain", JStr(<<"g">>), JStr(<<"o", "k">>), JNum(1)) >>),
    JsonFile(<< Object("domain", JStr(<<"d">>), JStr(<<"n">>), JNum(0)),
                Object("domain", JStr(<<"b", ".", "*">>), JStr(<<EAcute>>),
                       JNum(1)) >>),
    JsonFile(<< Object("domain", JStr(<<"g">>), JStr(<<"o", "k">>), Missing) >>) }

Responses == {Response(200), Response(301), Response(404), RequestException}

---------------------------------------------------------------------------
(* A run of main *)

\* no reader or builder call is under way on its own
NoReaderCall ==
  /\ rd_name = ""
  /\ rd_file = AbsentFile
  /\ rd_result = [called |-> FALSE, error |-> "", value |-> <<>>]

NoBuilderCall ==
  /\ b_args = << <<>>, <<>>, <<>>, <<>> >>
  /\ b_result = [called |-> FALSE, value |-> <<>>]

RunLocals ==
  /\ temp_dir = "none"
  /\ adlist_json = <<>>
  /\ adlist = <<>>
  /\ filter_in = <<>>
  /\ filter_i = 0
  /\ filter_out = <<>>
  /\ probes = <<>>
  /\ whitelist_exact = <<>>
  /\ blacklist_exact = <<>>
  /\ whitelist_regex = <<>>
  /\ blacklist_regex = <<>>
  /\ custom_filtering_rules = <<>>
  /\ print_i = 0
  /\ stdout = <<>>
  /\ events = <<>>
  /\ error = ""
  /\ exit_code = -1

Init ==
  /\ pc = "main"
  /\ argv_len \in {1, 2, 3}
  /\ archive \in {"valid", "invalid"}
  /\ encoding \in {"utf-8", "ascii"}
  /\ RunLocals
  /\ NoReaderCall
  /\ NoBuilderCall

\* an exception raised with no try/finally around it: the run ends at once
RaiseWithoutFinally(e) ==
  /\ error' = e
  /\ pc' = "terminated"

\* an exception raised inside the try statement: control goes to finally
RaiseInTry(e) ==
  /\ error' = e
  /\ pc' = "finally"

\* the argument check without its sys.exit(1): usage is printed, main goes on
CheckArgsWithoutExit ==
  /\ pc = "main"
  /\ stdout' = IF argv_len # 2 THEN Append(stdout, UsageMessage \o <<"\n">>)
               ELSE stdout
  /\ pc' = "unzip_tar_gz"
  /\ UNCHANGED <<error, exit_code>>
  /\ UNCHANGED <<argv_len, archive, encoding, temp_dir, adlist_json, adlist,
                 filter_in, filter_i, filter_out, probes, whitelist_exact,
                 blacklist_exact, whitelist_regex, blacklist_regex,
                 custom_filtering_rules, print_i, events>>
  /\ UNCHANGED <<reader_vars, builder_vars>>

\* if len(sys.argv) != 2: print usage, sys.exit(1)
CheckArgs ==
  /\ pc = "main"
  /\ IF argv_len # 2
     THEN /\ stdout' = Append(stdout, UsageMessage \o <<"\n">>)
          /\ error' = "SystemExit"
          /\ exit_code' = 1
          /\ pc' = "terminated"
     ELSE /\ pc' = "unzip_tar_gz"
          /\ UNCHANGED <<stdout, error, exit_code>>
  /\ UNCHANGED <<argv_len, archive, encoding, temp_dir, adlist_json, adlist,
                 filter_in, filter_i, filter_out, probes, whitelist_exact,
                 blacklist_exact, whitelist_regex, blacklist_regex,
                 custom_filtering_rules, print_i, events>>
  /\ UNCHANGED <<reader_vars, builder_vars>>

\* temp_dir = unzip_tar_gz(archive_path), called before the try statement:
\* mkdtemp creates the directory, then tarfile.open or extractall may raise
unzip_tar_gz ==
  /\ pc = "unzip_tar_gz"
  /\ temp_dir' = "exists"
  /\ IF archive = "valid"
     THEN /\ pc' = "read_adlist"
          /\ events' = Append(events, "unzip_tar_gz")
          /\ UNCHANGED <<error, exit_code>>
     ELSE /\ error' = "ReadError"
          /\ exit_code' = 1
          /\ pc' = "terminated"
          /\ UNCHANGED events
  /\ UNCHANGED <<argv_len, archive, encoding, adlist_json, adlist, filter_in,
                 filter_i, filter_out, probes, whitelist_exact,
                 blacklist_exact, whitelist_regex, blacklist_regex,
                 custom_filtering_rules, print_i, stdout>>
  /\ UNCHANGED <<reader_vars, builder_vars>>

\* adlist = read_adlist(temp_dir); the call of filter_working_adlist begins
ReadAdlist ==
  /\ pc = "read_adlist"
  /\ \E file \in RunAdlistFiles :
       LET r == read_adlist(file) IN
       /\ adlist_json' = file.records
       /\ IF r.error # ""
          THEN /\ RaiseInTry(r.error)
               /\ UNCHANGED <<adlist, filter_in, events>>
          ELSE /\ adlist' = r.value
               /\ filter_in' = r.value
               /\ events' = Append(events, "read_adlist")
               /\ pc' = "filter_working_adlist"
               /\ UNCHANGED error
  /\ UNCHANGED <<argv_len, archive, encoding, temp_dir, filter_i, filter_out,
                 probes, whitelist_exact, blacklist_exact, whitelist_regex,
                 blacklist_regex, custom_filtering_rules, print_i, stdout,
                 exit_code>>
  /\ UNCHANGED <<reader_vars, builder_vars>>

\* one iteration of [e for e in adlist if test_url(e["address"])]: the HEAD
\* request is issued unless the address has no replace method
TestEntry ==
  /\ pc = "filter_working_adlist"
  /\ filter_i < Len(filter_in)
  /\ \E response \in Responses :
       LET e == filter_in[filter_i + 1]
           r == test_url(e.address, response)
       IN IF r.error # ""
          THEN /\ RaiseInTry(r.error)
               /\ UNCHANGED <<filter_i, filter_out, probes>>
          ELSE /\ probes' = Append(probes, [url |-> PyReplace(e.address.str),
                                            response |-> response])
               /\ filter_out' = IF r.value THEN Append(filter_out, e)
                                ELSE filter_out
               /\ filter_i' = filter_i + 1
               /\ UNCHANGED <<pc, error>>
  /\ UNCHANGED <<argv_len, archive, encoding, temp_dir, adlist_json, adlist,
                 filter_in, whitelist_exact, blacklist_exact, whitelist_regex,
                 blacklist_regex, custom_filtering_rules, print_i, stdout,
                 events, exit_code>>
  /\ UNCHANGED <<reader_vars, builder_vars>>

\* main calling read_adlist again once the filter has returned
FilterReturnThenReadAgain ==
  /\ pc = "filter_working_adlist"
  /\ filter_i = Len(filter_in)
  /\ adlist' = filter_out
  /\ events' = Append(events, "filter_working_adlist")
  /\ pc' = "read_adlist"
  /\ UNCHANGED <<argv_len, archive, encoding, temp_dir, adlist_json,
                 filter_in, filter_i, filter_out, probes, whitelist_exact,
                 blacklist_exact, whitelist_regex, blacklist_regex,
                 custom_filtering_rules, print_i, stdout, error, exit_code>>
  /\ UNCHANGED <<reader_vars, builder_vars>>

\* adlist = filter_working_adlist(adlist): the comprehension is exhausted
FilterReturn ==
  /\ pc = "filter_working_adlist"
  /\ filter_i = Len(filter_in)
  /\ adlist' = filter_out
  /\ events' = Append(events, "filter_working_adlist")
  /\ pc' = "read_whitelist_exact"
  /\ UNCHANGED <<argv_len, archive, encoding, temp_dir, adlist_json,
                 filter_in, filter_i, filter_out, probes, whitelist_exact,
                 blacklist_exact, whitelist_regex, blacklist_regex,
                 custom_filtering_rules, print_i, stdout, error, exit_code>>
  /\ UNCHANGED <<reader_vars, builder_vars>>

ReadWhitelistExact ==
  /\ pc = "read_whitelist_exact"
  /\ \E file \in RunDomainFiles :
       LET r == read_whitelist_exact(file) IN
       IF r.error # ""
       THEN /\ RaiseInTry(r.error)
            /\ UNCHANGED <<whitelist_exact, events>>
       ELSE /\ whitelist_exact' = r.value
            /\ events' = Append(events, "read_whitelist_exact")
            /\ pc' = "read_blacklist_exact"
            /\ UNCHANGED error
  /\ UNCHANGED <<argv_len, archive, encoding, temp_dir, adlist_json, adlist,
                 filter_in, filter_i, filter_out, probes, blacklist_exact,
                 whitelist_regex, blacklist_regex, custom_filtering_rules,
                 print_i, stdout, exit_code>>
  /\ UNCHANGED <<reader_vars, builder_vars>>

ReadBlacklistExact ==
  /\ pc = "read_blacklist_exact"
  /\ \E file \in RunDomainFiles :
       LET r == read_blacklist_exact(file) IN
       IF r.error # ""
       THEN /\ RaiseInTry(r.error)
            /\ UNCHANGED <<blacklist_exact, events>>
       ELSE /\ blacklist_exact' = r.value
            /\ events' = Append(events, "read_blacklist_exact")
            /\ pc' = "read_whitelist_regex"
            /\ UNCHANGED error
  /\ UNCHANGED <<argv_len, archive, encoding, temp_dir, adlist_json, adlist,
                 filter_in, filter_i, filter_out, probes, whitelist_exact,
                 whitelist_regex, blacklist_regex, custom_filtering_rules,
                 print_i, stdout, exit_code>>
  /\ UNCHANGED <<reader_vars, builder_vars>>

ReadWhitelistRegex ==
  /\ pc = "read_whitelist_regex"
  /\ \E file \in RunDomainFiles :
       LET r == read_whitelist_regex(file) IN
       IF r.error # ""
       THEN /\ RaiseInTry(r.error)
            /\ UNCHANGED <<whitelist_regex, events>>
       ELSE /\ whitelist_regex' = r.value
            /\ events' = Append(events, "read_whitelist_regex")
            /\ pc' = "read_blacklist_regex"
            /\ UNCHANGED error
  /\ UNCHANGED <<argv_len, archive, encoding, temp_dir, adlist_json, adlist,
                 filter_in, filter_i, filter_out, probes, whitelist_exact,
                 blacklist_exact, blacklist_regex, custom_filtering_rules,
                 print_i, stdout, exit_code>>
  /\ UNCHANGED <<reader_vars, builder_vars>>

ReadBlacklistRegex ==
  /\ pc = "read_blacklist_regex"
  /\ \E file \in RunDomainFiles :
       LET r == read_blacklist_regex(file) IN
       IF r.error # ""
       THEN /\ RaiseInTry(r.error)
            /\ UNCHANGED <<blacklist_regex, events>>
       ELSE /\ blacklist_regex' = r.value
            /\ events' = Append(events, "read_blacklist_regex")
            /\ pc' = "build_custom_filtering_rules"
            /\ UNCHANGED error
  /\ UNCHANGED <<argv_len, archive, encoding, temp_dir, adlist_json, adlist,
                 filter_in, filter_i, filter_out, probes, whitelist_exact,
                 blacklist_exact, whitelist_regex, custom_filtering_rules,
                 print_i, stdout, exit_code>>
  /\ UNCHANGED <<reader_vars, builder_vars>>

\* custom_filtering_rules = build_custom_filtering_rules(...)
BuildRules ==
  /\ pc = "build_custom_filtering_rules"
  /\ custom_filtering_rules' =
       build_custom_filtering_rules(whitelist_exact, blacklist_exact,
                                    whitelist_regex, blacklist_regex)
  /\ events' = Append(events, "build_custom_filtering_rules")
  /\ pc' = "print_blocklists"
  /\ UNCHANGED <<argv_len, archive, encoding, temp_dir, adlist_json, adlist,
                 filter_in, filter_i, filter_out, probes, whitelist_exact,
                 blacklist_exact, whitelist_regex, blacklist_regex, print_i,
                 stdout, error, exit_code>>
  /\ UNCHANGED <<reader_vars, builder_vars>>

\* print(f"Add each of the following blocklist ...:\n\n")
PrintBlocklistHeader ==
  /\ pc = "print_blocklists"
  /\ LET r == print_calls(stdout, <<BlocklistHeader>>, 1, encoding) IN
     /\ stdout' = r.value
     /\ IF r.error # "" THEN RaiseInTry(r.error)
        ELSE pc' = "for_addlist_entry" /\ UNCHANGED error
  /\ UNCHANGED <<argv_len, archive, encoding, temp_dir, adlist_json, adlist,
                 filter_in, filter_i, filter_out, probes, whitelist_exact,
                 blacklist_exact, whitelist_regex, blacklist_regex,
                 custom_filtering_rules, print_i, events, exit_code>>
  /\ UNCHANGED <<reader_vars, builder_vars>>

\* one iteration of for addlist_entry in adlist: three print calls
PrintEntry ==
  /\ pc = "for_addlist_entry"
  /\ print_i < Len(adlist)
  /\ LET r == print_calls(stdout, entry_texts(adlist[print_i + 1]), 1,
                          encoding)
     IN /\ stdout' = r.value
        /\ IF r.error # ""
           THEN RaiseInTry(r.error) /\ UNCHANGED print_i
           ELSE print_i' = print_i + 1 /\ UNCHANGED <<pc, error>>
  /\ UNCHANGED <<argv_len, archive, encoding, temp_dir, adlist_json, adlist,
                 filter_in, filter_i, filter_out, probes, whitelist_exact,
                 blacklist_exact, whitelist_regex, blacklist_regex,
                 custom_filtering_rules, events, exit_code>>
  /\ UNCHANGED <<reader_vars, builder_vars>>

\* print(f"Copy past this ...:\n\n"); print(custom_filtering_rules); the try
\* block is left
PrintRules ==
  /\ pc = "for_addlist_entry"
  /\ print_i = Len(adlist)
  /\ LET r == print_calls(stdout, <<RulesHeader, custom_filtering_rules>>, 1,
                          encoding)
     IN /\ stdout' = r.value
        /\ error' = r.error
        /\ pc' = "finally"
  /\ UNCHANGED <<argv_len, archive, encoding, temp_dir, adlist_json, adlist,
                 filter_in, filter_i, filter_out, probes, whitelist_exact,
                 blacklist_exact, whitelist_regex, blacklist_regex,
                 custom_filtering_rules, print_i, events, exit_code>>
  /\ UNCHANGED <<reader_vars, builder_vars>>

\* finally: shutil.rmtree(temp_dir); then main returns, or the exception
\* goes on uncaught and the interpreter exits with status 1
Finally ==
  /\ pc = "finally"
  /\ temp_dir' = "removed"
  /\ IF error = ""
     THEN pc' = "exit" /\ UNCHANGED exit_code
     ELSE pc' = "terminated" /\ exit_code' = 1
  /\ UNCHANGED <<argv_len, archive, encoding, adlist_json, adlist, filter_in,
                 filter_i, filter_out, probes, whitelist_exact,
                 blacklist_exact, whitelist_regex, blacklist_regex,
                 custom_filtering_rules, print_i, stdout, events, error>>
  /\ UNCHANGED <<reader_vars, builder_vars>>

\* exit(0) after main() has returned
Exit ==
  /\ pc = "exit"
  /\ exit_code' = 0
  /\ pc' = "terminated"
  /\ UNCHANGED <<argv_len, archive, encoding, temp_dir, adlist_json, adlist,
                 filter_in, filter_i, filter_out, probes, whitelist_exact,
                 blacklist_exact, whitelist_regex, blacklist_regex,
                 custom_filtering_rules, print_i, stdout, events, error>>
  /\ UNCHANGED <<reader_vars, builder_vars>>

Next ==
  \/ CheckArgs
  \/ unzip_tar_gz
  \/ ReadAdlist
  \/ TestEntry
  \/ FilterReturn
  \/ ReadWhitelistExact
  \/ ReadBlacklistExact
  \/ ReadWhitelistRegex
  \/ ReadBlacklistRegex
  \/ BuildRules
  \/ PrintBlocklistHeader
  \/ PrintEntry
  \/ PrintRules
  \/ Finally
  \/ Exit

Spec == Init /\ [][Next]_vars

---------------------------------------------------------------------------
(* A list reader called on its own, on every file within the bounds *)

ReaderNames ==
  {"read_adlist", "read_whitelist_exact", "read_blacklist_exact",
   "read_whitelist_regex", "read_blacklist_regex"}

DomainReaderNames == ReaderNames \ {"read_adlist"}

\* the key a reader projects beside comment
KeyOf(name) == IF name = "read_adlist" THEN "address" ELSE "domain"

EnabledValues ==
  {Missing, JNum(0), JNum(1), JNum(2), JBool(TRUE), JBool(FALSE),
   JStr(<<"1">>)}

ReaderRecords(name) ==
  { Object(KeyOf(name), v, c, en) :
      v \in {Missing, JStr(<<"a">>), JStr(<<"b">>)},
      c \in {Missing, JStr(<<"x">>)},
      en \in EnabledValues }

ReaderFiles(name) ==
  {AbsentFile, GarbageFile}
    \cup {JsonFile(r) : r \in SeqsUpTo(ReaderRecords(name), MaxRecords)}

\* no run of main is under way
NoRun ==
  /\ pc = "idle"
  /\ argv_len = 2
  /\ archive = "valid"
  /\ encoding = "utf-8"
  /\ RunLocals

InitReaders ==
  /\ NoRun
  /\ NoBuilderCall
  /\ rd_name \in ReaderNames
  /\ rd_file \in ReaderFiles(rd_name)
  /\ rd_result = [called |-> FALSE, error |-> "", value |-> <<>>]

Called(r) == [called |-> TRUE, error |-> r.error, value |-> r.value]

CallReadAdlist ==
  /\ rd_name = "read_adlist"
  /\ ~rd_result.called
  /\ rd_result' = Called(read_adlist(rd_file))
  /\ UNCHANGED <<rd_name, rd_file, run_vars, builder_vars>>

CallReadWhitelistExact ==
  /\ rd_name = "read_whitelist_exact"
  /\ ~rd_result.called
  /\ rd_result' = Called(read_whitelist_exact(rd_file))
  /\ UNCHANGED <<rd_name, rd_file, run_vars, builder_vars>>

CallReadBlacklistExact ==
  /\ rd_name = "read_blacklist_exact"
  /\ ~rd_result.called
  /\ rd_result' = Called(read_blacklist_exact(rd_file))
  /\ UNCHANGED <<rd_name, rd_file, run_vars, builder_vars>>

CallReadWhitelistRegex ==
  /\ rd_name = "read_whitelist_regex"
  /\ ~rd_result.called
  /\ rd_result' = Called(read_whitelist_regex(rd_file))
  /\ UNCHANGED <<rd_name, rd_file, run_vars, builder_vars>>

CallReadBlacklistRegex ==
  /\ rd_name = "read_blacklist_regex"
  /\ ~rd_result.called
  /\ rd_result' = Called(read_blacklist_regex(rd_file))
  /\ UNCHANGED <<rd_name, rd_file, run_vars, builder_vars>>

NextReaders ==
  \/ CallReadAdlist
  \/ CallReadWhitelistExact
  \/ CallReadBlacklistExact
  \/ CallReadWhitelistRegex
  \/ CallReadBlacklistRegex

SpecReaders == InitReaders /\ [][NextReaders]_vars

---------------------------------------------------------------------------
(* build_custom_filtering_rules called on its own *)

BuilderEntries ==
  { [domain |-> JStr(<<"a">>), comment |-> JStr(<<"x">>)],
    [domain |-> JStr(<<"b", ".", "*">>), comment |-> JNull],
    [domain |-> JStr(<<"c">>), comment |-> JStr(<<"y", "\n", "z">>)] }

\* the lengths of four lists holding at most MaxEntries entries in all
BuilderLengths ==
  { n \in [1..4 -> 0..MaxEntries] : n[1] + n[2] + n[3] + n[4] <= MaxEntries }

InitBuilder ==
  /\ NoRun
  /\ NoReaderCall
  /\ \E n \in BuilderLengths :
       b_args \in [1..n[1] -> BuilderEntries] \X [1..n[2] -> BuilderEntries]
                    \X [1..n[3] -> BuilderEntries] \X [1..n[4] -> BuilderEntries]
  /\ b_result = [called |-> FALSE, value |-> <<>>]

\* b_args holds whitelist_exact, blacklist_exact, whitelist_regex and
\* blacklist_regex, in the order of the signature
CallBuild ==
  /\ ~b_result.called
  /\ b_result' = [called |-> TRUE,
                  value |-> build_custom_filtering_rules(b_args[1], b_args[2],
                                                         b_args[3], b_args[4])]
  /\ UNCHANGED <<b_args, run_vars, reader_vars>>

NextBuilder == CallBuild

SpecBuilder == InitBuilder /\ [][NextBuilder]_vars

---------------------------------------------------------------------------
(* Properties of a run of main *)

\* the call named has completed in this run
Happened(name) == \E k \in DOMAIN events : events[k] = name

\* the k-th smallest member of a set of numbers
NthOf(I, k) == CHOOSE m \in I : Cardinality({n \in I : n <= m}) = k

\* the entries of s at the positions I, in the order of s
EntriesAt(s, I) == [k \in 1..Cardinality(I) |-> s[NthOf(I, k)]]

\* C1: whenever extraction succeeded, the temporary directory has been
\* removed by the time the program has terminated, whether the report was
\* printed or a later step raised
C1_TempDirRemovedAfterExtraction ==
  (pc = "terminated" /\ Happened("unzip_tar_gz")) => temp_dir = "removed"

\* adlist.json was missing: the run aborted, the directory is gone
C1_Witness ==
  /\ pc = "terminated"
  /\ events = <<"unzip_tar_gz">>
  /\ error = "FileNotFoundError"
  /\ exit_code = 1
  /\ temp_dir = "removed"

\* C2: no terminated run leaves a created temporary directory on disk, a
\* run whose extraction failed included
C2_NoTempDirLeftBehind ==
  pc = "terminated" => temp_dir # "exists"

\* C8: with a wrong argument count the run ends with the usage message and
\* exit status 1 and has done nothing else: no directory, no file read, no
\* probe; a run that completes the pipeline exits with status 0
C8_UsageExitBeforeAnyWork ==
  /\ (argv_len # 2 /\ pc # "main") =>
       /\ pc = "terminated"
       /\ exit_code = 1
       /\ error = "SystemExit"
       /\ stdout = << UsageMessage \o <<"\n">> >>
       /\ temp_dir = "none"
       /\ events = <<>>
       /\ adlist_json = <<>>
       /\ probes = <<>>
  /\ (pc = "terminated" /\ error = "") =>
       /\ exit_code = 0
       /\ Happened("build_custom_filtering_rules")
  /\ (pc = "terminated" /\ error # "") => exit_code = 1

C8_Witness ==
  /\ argv_len = 3
  /\ pc = "terminated"
  /\ exit_code = 1
  /\ stdout = << UsageMessage \o <<"\n">> >>

\* the probes that returned status 200, by position
ProbedOk == {k \in 1..Len(probes) : probes[k].response = Response(200)}

\* the run raised inside filter_working_adlist
RaisedInFilter ==
  /\ pc \in {"finally", "terminated"}
  /\ events = <<"unzip_tar_gz", "read_adlist">>

\* C3: the filter keeps exactly the entries whose probe returned status 200,
\* in input order; every entry is probed whatever the earlier outcomes were,
\* and a network error never makes the filter raise
C3_FilterKeepsExactlyStatus200 ==
  /\ Len(probes) = filter_i
  /\ filter_out = EntriesAt(filter_in, ProbedOk)
  /\ Happened("filter_working_adlist") =>
       /\ filter_i = Len(filter_in)
       /\ adlist = EntriesAt(filter_in, ProbedOk)
  /\ RaisedInFilter =>
       /\ error = "AttributeError"
       /\ filter_in[filter_i + 1].address.kind # "str"

\* a network error on the first entry, status 200 on the second
C3_Witness ==
  /\ Happened("filter_working_adlist")
  /\ Len(filter_in) = 2
  /\ probes[1].response = RequestException
  /\ probes[2].response = Response(200)
  /\ adlist = <<filter_in[2]>>

\* the records of adlist.json whose enabled is not false
NotDisabled(e) == "enabled" \in DOMAIN e /\ e["enabled"] # JBool(FALSE)

EnabledRecords == SelectSeq(adlist_json, NotDisabled)

\* C4: the filter's input is exactly the records of adlist.json that are
\* not disabled, in order; every probe is for the address of one of them;
\* every entry of the report is one of them
C4_DisabledNeverProbedNorReported ==
  /\ Happened("read_adlist") =>
       filter_in = [k \in 1..Len(EnabledRecords) |->
                      [address |-> EnabledRecords[k]["address"],
                       comment |-> EnabledRecords[k]["comment"]]]
  /\ ~Happened("read_adlist") => filter_in = <<>>
  /\ Len(probes) <= Len(filter_in)
  /\ \A k \in 1..Len(probes) :
       probes[k].url = PyReplace(filter_in[k].address.str)
  /\ \E I \in SUBSET (1..Len(filter_in)) : adlist = EntriesAt(filter_in, I)
  /\ print_i <= Len(adlist)
  /\ \A k \in 1..print_i :
       /\ stdout[3 * k - 1] =
            NamePrefix \o PyFormat(adlist[k].comment) \o <<"\n">>
       /\ stdout[3 * k] =
            UrlPrefix \o PyReplace(adlist[k].address.str) \o <<"\n">>
  /\ argv_len = 2 => Len(stdout) <= 3 * Len(adlist) + 3

\* a disabled record, then an enabled one with an escaped address: one probe,
\* to the unescaped address, and a report of one entry
C4_Witness ==
  /\ pc = "terminated"
  /\ exit_code = 0
  /\ Len(adlist_json) = 2
  /\ adlist_json[1]["enabled"] = JBool(FALSE)
  /\ adlist_json[2]["enabled"] = JBool(TRUE)
  /\ Len(probes) = 1
  /\ probes[1].url = <<"h", ":", "/", "/", "a">>
  /\ Len(stdout) = 6
  /\ stdout[3] = <<"U", "R", "L", ":", " ", "h", ":", "/", "/", "a", "\n">>

\* what the print calls of a complete report write
WholeReport ==
  << BlocklistHeader \o <<"\n">> >>
    \o [k \in 1..(3 * Len(adlist)) |->
          entry_texts(adlist[(k + 2) \div 3])[((k - 1) % 3) + 1] \o <<"\n">>]
    \o << RulesHeader \o <<"\n">>, custom_filtering_rules \o <<"\n">> >>

ReaderErrors == {"FileNotFoundError", "JSONDecodeError", "KeyError"}

\* C7: a run given an archive path either writes the whole report or aborts
\* with an unhandled error after cleanup; when a list reader fails nothing
\* of the report has been printed
C7_WholeReportOrAbortAfterCleanup ==
  /\ (pc = "terminated" /\ argv_len = 2) =>
       \/ error = "" /\ stdout = WholeReport
       \/ error # "" /\ exit_code = 1 /\ temp_dir # "exists"
  /\ error \in ReaderErrors => stdout = <<>>

\* the calls of main in the order of its statements
CallOrder ==
  <<"unzip_tar_gz", "read_adlist", "filter_working_adlist",
    "read_whitelist_exact", "read_blacklist_exact", "read_whitelist_regex",
    "read_blacklist_regex", "build_custom_filtering_rules">>

\* C10 as stated: once a probe has been issued, all five list readers have
\* completed
C10_AllReadersBeforeFirstProbe ==
  probes # <<>> => \A n \in ReaderNames : Happened(n)

\* C10 as amended: the calls complete in the order of main's statements, none
\* twice; read_adlist has completed before the first probe; the four
\* domain-list readers run, and can fail, only after the filter has returned;
\* nothing of the report is printed before the rule builder has returned
C10_ForwardOrderOfCalls ==
  /\ events = SubSeq(CallOrder, 1, Len(events))
  /\ probes # <<>> => Happened("read_adlist")
  /\ \A n \in DomainReaderNames :
       Happened(n) => Happened("filter_working_adlist")
  /\ error \in ReaderErrors =>
       \/ events = <<"unzip_tar_gz">> /\ probes = <<>>
       \/ Happened("filter_working_adlist")
  /\ (argv_len = 2 /\ stdout # <<>>) =>
       Happened("build_custom_filtering_rules")

\* whitelist.exact.json is missing: the run aborts after two probes
C10_Witness ==
  /\ pc = "terminated"
  /\ error = "FileNotFoundError"
  /\ events = <<"unzip_tar_gz", "read_adlist", "filter_working_adlist">>
  /\ Len(probes) = 2

---------------------------------------------------------------------------
(* Properties of the list readers *)

AllKeys(name) == {KeyOf(name), "comment", "enabled"}

\* enabled is the number 1, or true, which Python's == 1 also accepts
EnabledIsOne(e) ==
  "enabled" \in DOMAIN e /\ e["enabled"] \in {JNum(1), JBool(TRUE)}

\* C5: each domain-list reader returns exactly the records with enabled == 1,
\* in file order, each reduced to domain and comment with their values
\* unchanged
C5_DomainReadersKeepEnabledOne ==
  (rd_result.called /\ rd_name \in DomainReaderNames
     /\ rd_file.state = "json") =>
    LET records == rd_file.records
        kept == SelectSeq(records, EnabledIsOne)
    IN /\ (\A k \in DOMAIN records : DOMAIN records[k] = AllKeys(rd_name))
            => rd_result.error = ""
       /\ rd_result.error = "" =>
            rd_result.value = [k \in 1..Len(kept) |->
                                 [domain |-> kept[k]["domain"],
                                  comment |-> kept[k]["comment"]]]

\* a record with enabled 0 before a record with enabled 1: only the second
\* is returned
C5_Witness ==
  /\ rd_result.called
  /\ rd_name = "read_blacklist_regex"
  /\ rd_file.state = "json"
  /\ Len(rd_file.records) = 2
  /\ DOMAIN rd_file.records[1] = AllKeys(rd_name)
  /\ rd_file.records[1]["enabled"] = JNum(0)
  /\ rd_file.records[2] =
       Object("domain", JStr(<<"b">>), JStr(<<"x">>), JNum(1))
  /\ rd_result.error = ""
  /\ rd_result.value = << [domain |-> JStr(<<"b">>), comment |-> JStr(<<"x">>)] >>

\* the record passes the reader's if clause
PassesFilter(name, e) ==
  IF name = "read_adlist" THEN PyTruthy(e["enabled"])
  ELSE PyEqualsOne(e["enabled"])

\* the record makes the reader's comprehension raise
Offending(name, e) ==
  \/ "enabled" \notin DOMAIN e
  \/ PassesFilter(name, e) /\ ~({KeyOf(name), "comment"} \subseteq DOMAIN e)

\* C9 as stated: a reader given an array in which any record lacks one of
\* the three keys fails
C9_AnyMissingKeyFails ==
  (rd_result.called /\ rd_file.state = "json") =>
    ((\E k \in DOMAIN rd_file.records :
        DOMAIN rd_file.records[k] # AllKeys(rd_name))
       => rd_result.error # "")

\* C9 as amended: a reader fails, with KeyError and no list, exactly when a
\* record lacks enabled or a record that passes the filter lacks
\* address/domain or comment
C9_FailsOnKeysItReads ==
  (rd_result.called /\ rd_file.state = "json") =>
    /\ rd_result.error # "" <=>
         \E k \in DOMAIN rd_file.records :
           Offending(rd_name, rd_file.records[k])
    /\ rd_result.error # "" =>
         rd_result.error = "KeyError" /\ rd_result.value = <<>>

\* a disabled record without comment: the reader returns the other record
C9_Witness ==
  /\ rd_result.called
  /\ rd_file.state = "json"
  /\ Len(rd_file.records) = 2
  /\ DOMAIN rd_file.records[1] = AllKeys(rd_name) \ {"comment"}
  /\ rd_result.error = ""
  /\ Len(rd_result.value) = 1

---------------------------------------------------------------------------
(* Properties of the rule builder *)

WhitelistLine == <<"!", " ", "W", "h", "i", "t", "e", "l", "i", "s", "t">>

BlacklistLine == <<"!", " ", "B", "l", "a", "c", "k", "l", "i", "s", "t">>

\* the two lines of each entry, in the order of the entries
PairLines(entries, prefix, suffix) ==
  [k \in 1..(2 * Len(entries)) |->
     IF k % 2 = 1
     THEN <<"#", " ">> \o PyFormat(entries[(k + 1) \div 2].comment)
     ELSE prefix \o PyFormat(entries[k \div 2].domain) \o suffix]

\* the lines the claim lists, for arguments in the order of the signature
ExpectedLines(args) ==
  <<WhitelistLine>>
    \o PairLines(args[1], <<"@", "@", "|">>, <<"^">>)
    \o PairLines(args[3], <<"@", "@", "/">>, <<"/">>)
    \o << <<>>, <<>> >>
    \o <<BlacklistLine>>
    \o PairLines(args[2], <<"|">>, <<"^">>)
    \o PairLines(args[4], <<"/">>, <<"/">>)

\* the text made of the lines, each ended by a line break
RECURSIVE Unlines(_)
Unlines(lines) ==
  IF lines = <<>> THEN <<>>
  ELSE Head(lines) \o <<"\n">> \o Unlines(Tail(lines))

\* the lines of a text, cur being the line under way
RECURSIVE SplitLines(_, _)
SplitLines(text, cur) ==
  IF text = <<>> THEN (IF cur = <<>> THEN <<>> ELSE <<cur>>)
  ELSE IF Head(text) = "\n" THEN <<cur>> \o SplitLines(Tail(text), <<>>)
  ELSE SplitLines(Tail(text), Append(cur, Head(text)))

HasLineBreak(s) == \E k \in DOMAIN s : s[k] = "\n"

NoLineBreaks(args) ==
  \A j \in 1..4 : \A k \in DOMAIN args[j] :
    /\ ~HasLineBreak(PyFormat(args[j][k].comment))
    /\ ~HasLineBreak(PyFormat(args[j][k].domain))

\* C6: the builder's text is the Whitelist header, the pairs of the exact
\* then of the regex whitelist entries, the Blacklist header, the pairs of
\* the exact then of the regex blacklist entries, each list in input order;
\* read line by line (no comment or domain holding a line break) each header
\* occurs once, Whitelist first
C6_RuleBlockInFixedOrder ==
  b_result.called =>
    /\ b_result.value = Unlines(ExpectedLines(b_args))
    /\ NoLineBreaks(b_args) =>
         LET lines == SplitLines(b_result.value, <<>>)
             w == {k \in DOMAIN lines : lines[k] = WhitelistLine}
             b == {k \in DOMAIN lines : lines[k] = BlacklistLine}
         IN /\ lines = ExpectedLines(b_args)
            /\ Cardinality(w) = 1
            /\ Cardinality(b) = 1
            /\ \A i \in w : \A j \in b : i < j

\* two exact whitelist entries and one regex blacklist entry
C6_Witness ==
  /\ b_result.called
  /\ b_args = << << [domain |-> JStr(<<"a">>), comment |-> JStr(<<"x">>)],
                    [domain |-> JStr(<<"b", ".", "*">>), comment |-> JNull] >>,
                 <<>>, <<>>,
                 << [domain |-> JStr(<<"b", ".", "*">>), comment |-> JNull] >> >>
  /\ SplitLines(b_result.value, <<>>) =
       << WhitelistLine,
          <<"#", " ", "x">>, <<"@", "@", "|", "a", "^">>,
          <<"#", " ", "N", "o", "n", "e">>,
          <<"@", "@", "|", "b", ".", "*", "^">>,
          <<>>, <<>>,
          BlacklistLine,
          <<"#", " ", "N", "o", "n", "e">>, <<"/", "b", ".", "*", "/">> >>

===========================================================================
